---- MODULE Spec2Model ----
(***************************************************************************)
(* Model of the car-scrapper synchronisation engine: the snapshot store    *)
(* (load_previous_results / the final json.dump), the per-item reconciler  *)
(* (process_item), the bounded-concurrency scheduler with CAPTCHA restart  *)
(* (run_search_async in scraper.py) and the finalisation that marks        *)
(* unseen prior entries as removed.                                        *)
(***************************************************************************)
EXTENDS Integers, Sequences, FiniteSets, TLC

(* ------------------------------------------------------------------ *)
(* Bounds of the model                                                 *)
(* ------------------------------------------------------------------ *)
\* number of runs of run_search_async explored in one behaviour
MaxRuns == 2
\* number of fetches the remote site answers with a CAPTCHA
MaxBlocked == 2
\* number of fetches that fail with a non-CAPTCHA error
MaxErrors == 1
\* the pool sizes config.json sets
Windows == {1, 2}
\* the item ids the feed can list
ItemIds == {1, 2}
\* prices a listing page can show
Prices == {100, 120}
\* price shown for a listing on the feed page
FeedPrices == {100}
\* number of calls of save_search_to_history explored in one behaviour
MaxSaves == 3
\* manufacturers of the searches a user saves: the first, a middle and the
\* last entry of a full history, and two that are not in it
Manufacturers == {1, 5, 10, 11, 12}
\* the length save_search_to_history cuts last_searches to
HistoryLimit == 10

(* ------------------------------------------------------------------ *)
(* Values                                                              *)
(* ------------------------------------------------------------------ *)
\* Python None in an integer-valued field (dict.get of a missing key)
NoneInt == -1
\* Python None in a string-valued field
NoneStr == "None"
\* Python None in place of a content hash
NoneHash == <<>>

Max(S) == CHOOSE x \in S : \A y \in S : y <= x

\* hashlib.md5 over json.dumps(important_fields, sort_keys=True): an injective
\* encoding of the four important fields in sorted key order
calculate_car_hash(car) ==
    <<car.description, car.location, car.mileage, car.price>>

\* the dict extract_car_details_async returns for a page, given the price the
\* page shows (NoneInt when no price element is found)
PageDetails(price) ==
    [title |-> 1, price |-> price, mileage |-> NoneInt,
     location |-> NoneInt, description |-> NoneInt]

\* a raw record of a legacy flat-list file: no status, hash or counters
LegacyRecord(id, price) ==
    [item_id |-> id, title |-> 1, price |-> price, mileage |-> NoneInt,
     location |-> NoneInt, description |-> NoneInt,
     status |-> NoneStr, content_hash |-> NoneHash, first_seen |-> NoneInt,
     last_update |-> NoneInt, update_count |-> NoneInt, removed_date |-> NoneInt]

(* ------------------------------------------------------------------ *)
(* previous_results: a Python dict, kept as the sequence of its values *)
(* in insertion order; the key of a value is its item_id               *)
(* ------------------------------------------------------------------ *)
Keys(d) == {d[j].item_id : j \in DOMAIN d}
Lookup(d, k) == d[CHOOSE j \in DOMAIN d : d[j].item_id = k]

\* d[k] = v : replaces the value in place, or appends a new key
DictSet(d, v) ==
    IF v.item_id \in Keys(d)
    THEN [j \in DOMAIN d |-> IF d[j].item_id = v.item_id THEN v ELSE d[j]]
    ELSE Append(d, v)

RECURSIVE DictOfCars(_)
\* {car['item_id']: car for car in cars if 'item_id' in car}
DictOfCars(cars) ==
    IF cars = <<>> THEN <<>>
    ELSE LET front == DictOfCars(SubSeq(cars, 1, Len(cars) - 1))
             last == cars[Len(cars)]
         IN IF last.item_id = NoneInt THEN front ELSE DictSet(front, last)

\* load_previous_results(output_file)
load_previous_results(file) ==
    IF file.kind = "nofile" THEN <<>>
    ELSE IF file.kind = "dict" THEN DictOfCars(file.cars)
    ELSE IF file.kind = "list" THEN DictOfCars(file.cars)
    ELSE <<>>

\* load_previous_results catches FileNotFoundError only: a file that cannot be
\* opened for reading (PermissionError), that json.load rejects
\* (JSONDecodeError) or whose entries do not support "'item_id' in car"
\* (TypeError for numbers) makes the call raise, and then it returns nothing
load_raises(file) == file.kind \in {"unreadable", "invalid_json", "not_records"}

\* old_car.get(key, default) for the integer-valued keys
GetInt(v, default) == IF v = NoneInt THEN default ELSE v


\* a bug a claim must detect: the counter is carried over, not raised
UpdatedCount_NotRaised(old_car) == GetInt(old_car.update_count, 0)

\* car['update_count'] = old_car.get('update_count', 0) + 1
UpdatedCount(old_car) == GetInt(old_car.update_count, 0) + 1

\* a bug a claim must detect: is_first_run is ignored
NewItemStatus_AlwaysNew(first_run) == "new"

\* the status of a fetched item that is not in previous_results
NewItemStatus(first_run) == IF first_run THEN "active" ELSE "new"

\* process_item, from the merge of feed and page data to the returned car:
\* the entry built for a successfully extracted page
process_item(item, page_price, prev, now, first_run) ==
    LET details == PageDetails(page_price)
        \* if not car['price'] and item.get('price'): car['price'] = item['price']
        price == IF (details.price = NoneInt \/ details.price = 0)
                    /\ item.price # NoneInt /\ item.price # 0
                 THEN item.price ELSE details.price
        car == [item_id |-> item.item_id, title |-> details.title,
                price |-> price, mileage |-> details.mileage,
                location |-> details.location,
                description |-> details.description]
        new_hash == calculate_car_hash(car)
        stamp(status, last_update, first_seen, update_count) ==
            [item_id |-> car.item_id, title |-> car.title, price |-> car.price,
             mileage |-> car.mileage, location |-> car.location,
             description |-> car.description,
             status |-> status, content_hash |-> new_hash,
             first_seen |-> first_seen, last_update |-> last_update,
             update_count |-> update_count, removed_date |-> NoneInt]
    IN IF item.item_id \in Keys(prev)
       THEN LET old_car == Lookup(prev, item.item_id)
                old_hash == old_car.content_hash
            IN IF old_hash # new_hash
               THEN stamp("updated", now, GetInt(old_car.first_seen, now),
                          UpdatedCount(old_car))
               ELSE stamp("active", GetInt(old_car.last_update, now),
                          GetInt(old_car.first_seen, now),
                          GetInt(old_car.update_count, 0))
       ELSE stamp(NewItemStatus(first_run), now, now, 0)

\* a bug a claim must detect: the ids found in this run are not looked at
RemovedEntries_IgnoreFound(prev, res, now) ==
    LET missing(old_car) == old_car.status # "removed"
        mark(old_car) == [old_car EXCEPT !.status = "removed",
                                         !.removed_date = now]
        gone == SelectSeq(prev, missing)
    IN [j \in DOMAIN gone |-> mark(gone[j])]

\* the removed-items pass of run_search_async: the prior entries that are
\* neither found in this run nor already removed, stamped as removed
RemovedEntries(prev, res, now) ==
    LET found_ids == {res[j].item_id : j \in DOMAIN res}
        missing(old_car) == old_car.item_id \notin found_ids
                            /\ old_car.status # "removed"
        mark(old_car) == [old_car EXCEPT !.status = "removed",
                                         !.removed_date = now]
        gone == SelectSeq(prev, missing)
    IN [j \in DOMAIN gone |-> mark(gone[j])]

\* output_data written by json.dump at the end of run_search_async
OutputData(res, now) ==
    [kind |-> "dict", last_scraped |-> now,
     total_cars_scraped |-> Len(res), cars |-> res]

(* ------------------------------------------------------------------ *)
(* State                                                               *)
(* ------------------------------------------------------------------ *)
VARIABLES
    concurrent_windows, \* scraper_settings.concurrent_windows of config.json
    disk,               \* content of cars/<name>.json
    clock,              \* datetime.now(), in minutes
    runs,               \* calls of run_search_async made so far
    pc,                 \* position of run_search_async
    previous_results,   \* dict loaded at the start of the run
    is_first_run,
    current_timestamp,
    all_items_to_process,
    results,            \* accumulated result list
    idx,                \* next index to dispatch (0-based)
    running,            \* keys of the running dict: tasks <<index, generation>>
    done,               \* tasks of the current wait batch not yet handled
    tasks,              \* state and result of every task object
    semaphore,          \* free slots of asyncio.Semaphore(concurrency)
    context,            \* generation of the shared browser context
    restarts,           \* CAPTCHA restarts of this run
    captcha_i,          \* index i of the task that reported CAPTCHA
    run_blocked,        \* fetches of this run that reported CAPTCHA
    run_errors,         \* fetches of this run that reported another error
    all_blocked,        \* fetches of all runs that reported CAPTCHA
    all_errors,         \* fetches of all runs that reported another error
    last_count,         \* history: the update_count last written for each id
    removed_entry,      \* history: the entry last written as removed for each
                        \* id, until the id is written with another status
    fetched,            \* the outcome the site gives for each listed id
    delivered,          \* ids whose outcome the loop has handled
    fb_disk,            \* content of the Facebook output_file
    fb_pc,              \* position of facebook_scraper.scrape_search
    fb_runs,            \* calls of scrape_search made so far
    previous_cars,      \* scrape_search: dict loaded at the start
    all_cars,           \* scrape_search: list written at the end
    listings,           \* scrape_search: ids of the listings found
    fb_i,               \* scrape_search: position in listings (1-based)
    last_searches,      \* config['last_searches'] of config.json
    saves,              \* calls of save_search_to_history made so far
    last_saved          \* the search string of the last call that saved

\* the state of the three other programs of the repository, which
\* run_search_async of scraper.py never touches
order_vars == <<fetched, delivered>>
facebook_vars == <<fb_disk, fb_pc, fb_runs, previous_cars, all_cars, listings,
                   fb_i>>
history_vars == <<last_searches, saves, last_saved>>
other_vars == <<order_vars, facebook_vars, history_vars>>

vars == <<concurrent_windows, disk, clock, runs, pc, previous_results,
          is_first_run, current_timestamp, all_items_to_process, results, idx,
          running, done, tasks, semaphore, context, restarts, captcha_i,
          run_blocked, run_errors, all_blocked, all_errors, last_count,
          removed_entry, other_vars>>

\* a bug a claim must detect: the pool is one window too large
concurrency_OffByOne == concurrent_windows + 1

\* concurrency = concurrent_windows
concurrency == concurrent_windows

NoFile == [kind |-> "nofile", last_scraped |-> NoneInt,
           total_cars_scraped |-> 0, cars |-> <<>>]

RECURSIVE SortedSeq(_)
SortedSeq(S) ==
    IF S = {} THEN <<>>
    ELSE LET m == Max(S) IN Append(SortedSeq(S \ {m}), m)

\* the files a first call can find: none, or a legacy flat list of raw records
LegacyFile(S) ==
    LET ids == SortedSeq(S)
    IN [kind |-> "list", last_scraped |-> NoneInt, total_cars_scraped |-> 0,
        cars |-> [j \in DOMAIN ids |-> LegacyRecord(ids[j], 100)]]

\* a file written by two earlier runs over LegacyFile({1}): the first, at time
\* 1, fetched item 1 at a new price and item 2; the second, at time 2, fetched
\* item 2 again and no longer listed item 1
EarlierFile ==
    LET one == [LegacyRecord(1, 120) EXCEPT
                  !.status = "removed",
                  !.content_hash = calculate_car_hash(LegacyRecord(1, 120)),
                  !.first_seen = 1, !.last_update = 1, !.update_count = 1,
                  !.removed_date = 2]
        two == [LegacyRecord(2, 100) EXCEPT
                  !.status = "active",
                  !.content_hash = calculate_car_hash(LegacyRecord(2, 100)),
                  !.first_seen = 1, !.last_update = 1, !.update_count = 0]
    IN [kind |-> "dict", last_scraped |-> 2, total_cars_scraped |-> 2,
        cars |-> <<two, one>>]

\* a file the process has no permission to read
UnreadableFile == [kind |-> "unreadable", last_scraped |-> NoneInt,
                   total_cars_scraped |-> 0, cars |-> <<>>]

\* a JSON array whose entries are numbers, not records
NotRecordsFile == [kind |-> "not_records", last_scraped |-> NoneInt,
                   total_cars_scraped |-> 0, cars |-> <<>>]

\* what open(output_file, 'w') and an unfinished json.dump leave: a proper
\* prefix of the JSON text, which json.load rejects
TruncatedFile == [kind |-> "invalid_json", last_scraped |-> NoneInt,
                  total_cars_scraped |-> 0, cars |-> <<>>]

\* the update_count a file holds for each id, and kept[k] for the ids it lacks
CountsIn(file, kept) ==
    LET d == load_previous_results(file)
    IN [k \in ItemIds |->
          IF k \in Keys(d) /\ Lookup(d, k).update_count # NoneInt
          THEN Lookup(d, k).update_count ELSE kept[k]]

NoCar == LegacyRecord(NoneInt, NoneInt)

\* the entry a file holds as removed for each id; no entry for an id it holds
\* with another status, and kept[k] for the ids it lacks
RemovedIn(file, kept) ==
    LET d == load_previous_results(file)
    IN [k \in ItemIds |->
          IF k \in Keys(d)
          THEN (IF Lookup(d, k).status = "removed" THEN Lookup(d, k) ELSE NoCar)
          ELSE kept[k]]
NoResult == [kind |-> "none", car |-> NoCar]
NewTask == [st |-> "created", slot |-> FALSE, res |-> NoResult, ctx |-> 0]

\* the locals of run_search_async outside a call
Idle ==
    /\ pc = "idle"
    /\ previous_results = <<>>
    /\ is_first_run = FALSE
    /\ current_timestamp = NoneInt
    /\ all_items_to_process = <<>>
    /\ results = <<>>
    /\ idx = 0
    /\ running = {}
    /\ done = {}
    /\ tasks = <<>>
    /\ semaphore = 0
    /\ context = 0
    /\ restarts = 0
    /\ captcha_i = NoneInt
    /\ run_blocked = 0
    /\ run_errors = 0

\* no reconciliation in a fixed completion order is under way
NoOrder == fetched = <<>> /\ delivered = {}

\* facebook_scraper.py is not running and has written nothing
NoFacebook ==
    /\ fb_disk = NoFile
    /\ fb_pc = "idle"
    /\ fb_runs = 0
    /\ previous_cars = <<>>
    /\ all_cars = <<>>
    /\ listings = <<>>
    /\ fb_i = 0

\* no search has been saved to config.json
NoHistory == last_searches = <<>> /\ saves = 0 /\ last_saved = <<>>

Init ==
    /\ NoOrder
    /\ NoFacebook
    /\ NoHistory
    /\ concurrent_windows \in Windows
    /\ \/ /\ disk \in {NoFile, LegacyFile({1}), UnreadableFile, NotRecordsFile}
          /\ clock = 0
       \/ disk = EarlierFile /\ clock = 2
    /\ runs = 0
    /\ last_count = CountsIn(disk, [k \in ItemIds |-> NoneInt])
    /\ removed_entry = RemovedIn(disk, [k \in ItemIds |-> NoCar])
    /\ all_blocked = 0
    /\ all_errors = 0
    /\ Idle


(* ------------------------------------------------------------------ *)
(* run_search_async (scraper.py)                                       *)
(* ------------------------------------------------------------------ *)
Items(S) ==
    LET ids == SortedSeq(S)
    IN [j \in DOMAIN ids |->
          [item_id |-> ids[j], price |-> CHOOSE p \in FeedPrices : TRUE]]

\* start_task_for_index for the indices from..to-1, under generation gen
\* and browser context ctx
StartedTasks(from, to, gen, ctx) ==
    [t \in {<<i, gen>> : i \in from..(to - 1)} |-> [NewTask EXCEPT !.ctx = ctx]]

\* a bug a claim must detect: at most one reference is admitted at a time
FillTo_OnlyOne(from, n_running, n_items) ==
    IF from < n_items /\ n_running < concurrency THEN from + 1 ELSE from

\* while idx < len(all_items_to_process) and len(running) < concurrency:
\* the value of idx after the loop
FillTo(from, n_running, n_items) ==
    LET room == concurrency - n_running
        left == n_items - from
        started == IF room < left THEN room ELSE left
    IN IF started > 0 THEN from + started ELSE from

\* the feed page fails to load, or shows a CAPTCHA in headless mode:
\* run_search_async returns before anything is dispatched or written
FeedFails ==
    /\ pc = "idle"
    /\ runs < MaxRuns
    /\ ~load_raises(disk)
    /\ runs' = runs + 1
    /\ clock' = clock + 1
    /\ UNCHANGED <<concurrent_windows, disk, pc, previous_results,
                   is_first_run, current_timestamp, all_items_to_process,
                   results, idx, running, done, tasks, semaphore, context,
                   restarts, captcha_i, run_blocked, run_errors, all_blocked,
                   all_errors, last_count,
                   removed_entry, other_vars>>

\* previous_results = load_previous_results(output_file) raises: nothing in
\* run_search_async or main catches it, the call ends with the exception
LoadFails ==
    /\ pc = "idle"
    /\ runs < MaxRuns
    /\ load_raises(disk)
    /\ runs' = runs + 1
    /\ clock' = clock + 1
    /\ UNCHANGED <<concurrent_windows, disk, pc, previous_results,
                   is_first_run, current_timestamp, all_items_to_process,
                   results, idx, running, done, tasks, semaphore, context,
                   restarts, captcha_i, run_blocked, run_errors, all_blocked,
                   all_errors, last_count, removed_entry, other_vars>>

\* run_search_async from its first line to the end of "Prime initial tasks"
StartRun(S) ==
    /\ pc = "idle"
    /\ runs < MaxRuns
    /\ ~load_raises(disk)
    /\ LET prev == load_previous_results(disk)
           items == Items(S)
           to == FillTo(0, 0, Len(items))
       IN /\ previous_results' = prev
          /\ is_first_run' = (Len(prev) = 0)
          /\ current_timestamp' = clock + 1
          /\ all_items_to_process' = items
          /\ results' = <<>>
          /\ idx' = to
          /\ tasks' = StartedTasks(0, to, 0, 1)
          /\ running' = DOMAIN StartedTasks(0, to, 0, 1)
          /\ pc' = IF to > 0 THEN "wait" ELSE "finalize"
    /\ semaphore' = concurrency
    /\ context' = 1
    /\ done' = {}
    /\ restarts' = 0
    /\ captcha_i' = NoneInt
    /\ run_blocked' = 0
    /\ run_errors' = 0
    /\ UNCHANGED <<concurrent_windows, disk, clock, runs, all_blocked,
                   all_errors, last_count,
                   removed_entry, other_vars>>

\* a created task is on the ready queue of the event loop and can enter
\* "async with semaphore" without waiting
CanEnter == semaphore > 0 /\ \E t \in DOMAIN tasks : tasks[t].st = "created"

\* async with semaphore: the first task of the ready queue gets a slot
TaskAcquire(t) ==
    /\ pc = "wait"
    /\ t \in DOMAIN tasks
    /\ tasks[t].st = "created"
    /\ semaphore > 0
    /\ \A u \in DOMAIN tasks : tasks[u].st = "created" => t[1] <= u[1]
    /\ semaphore' = semaphore - 1
    /\ tasks' = [tasks EXCEPT ![t].st = "fetching", ![t].slot = TRUE]
    /\ UNCHANGED <<concurrent_windows, disk, clock, runs, pc,
                   previous_results, is_first_run, current_timestamp,
                   all_items_to_process, results, idx, running, done,
                   context, restarts, captcha_i, run_blocked, run_errors,
                   all_blocked, all_errors, last_count,
                   removed_entry, other_vars>>

\* what process_item returns for the page the site serves
Outcomes(item) ==
    {[kind |-> "success",
      car |-> process_item(item, p, previous_results, current_timestamp,
                           is_first_run)] : p \in Prices \cup {NoneInt}}
    \cup (IF all_blocked < MaxBlocked
          THEN {[kind |-> "CAPTCHA", car |-> NoCar]} ELSE {})
    \cup (IF all_errors < MaxErrors
          THEN {[kind |-> "error", car |-> NoCar]} ELSE {})

\* process_item runs to its return and leaves the semaphore
TaskComplete(t, res) ==
    /\ pc = "wait"
    /\ t \in DOMAIN tasks
    /\ tasks[t].st = "fetching"
    /\ ~CanEnter
    /\ res \in Outcomes(all_items_to_process[t[1] + 1])
    /\ tasks' = [tasks EXCEPT ![t].st = "finished", ![t].slot = FALSE,
                              ![t].res = res]
    /\ semaphore' = semaphore + 1
    /\ run_blocked' = IF res.kind = "CAPTCHA" THEN run_blocked + 1 ELSE run_blocked
    /\ run_errors' = IF res.kind = "error" THEN run_errors + 1 ELSE run_errors
    /\ all_blocked' = IF res.kind = "CAPTCHA" THEN all_blocked + 1 ELSE all_blocked
    /\ all_errors' = IF res.kind = "error" THEN all_errors + 1 ELSE all_errors
    /\ UNCHANGED <<concurrent_windows, disk, clock, runs, pc,
                   previous_results, is_first_run, current_timestamp,
                   all_items_to_process, results, idx, running, done,
                   context, restarts, captcha_i, last_count,
                   removed_entry, other_vars>>

\* done, _ = await asyncio.wait(running.keys(), return_when=FIRST_COMPLETED)
Wait ==
    /\ pc = "wait"
    /\ ~CanEnter
    /\ \E t \in running : tasks[t].st = "finished"
    /\ done' = {t \in running : tasks[t].st = "finished"}
    /\ pc' = "loop"
    /\ UNCHANGED <<concurrent_windows, disk, clock, runs, previous_results,
                   is_first_run, current_timestamp, all_items_to_process,
                   results, idx, running, tasks, semaphore, context,
                   restarts, captcha_i, run_blocked, run_errors, all_blocked,
                   all_errors, last_count,
                   removed_entry, other_vars>>

\* a bug a claim must detect: the cancelled tasks are not awaited
Gathered_NotAwaited(S) == TRUE

\* await asyncio.gather(*S, return_exceptions=True) has returned: no task of
\* S is still unwinding
Gathered(S) == \A t \in S : tasks[t].st # "cancelling"

\* a bug a claim must detect: the restart starts from an empty result list
KeptResults_Cleared(res) == <<>>

\* the result list across the CAPTCHA branch, which never assigns to it
KeptResults(res) == res

\* a bug a claim must detect: every failed fetch is handled as a CAPTCHA
IsBlocked_AnyError(res) == res.kind # "success"

\* elif 'error' in res: if res['error'] == 'CAPTCHA'
IsBlocked(res) == res.kind = "CAPTCHA"

\* a bug a claim must detect: the restarted tasks get the closed context
RestartContext_Stale(ctx) == ctx

\* the context start_task_for_index reads after
\* "browser, context = await launch_browser_and_context()" rebound it
RestartContext(ctx) == ctx + 1

\* rt.cancel() for every task of S: a task that is not finished starts
\* unwinding, a finished one is left alone
Cancel(S) ==
    [t \in DOMAIN tasks |->
       IF t \in S /\ tasks[t].st \in {"created", "fetching"}
       THEN [tasks[t] EXCEPT !.st = "cancelling"] ELSE tasks[t]]

\* where the for loop over done goes after one iteration
AfterIteration(done_left, running_left) ==
    IF done_left # {} THEN "loop"
    ELSE IF running_left # {} THEN "wait" ELSE "finalize"

\* one iteration of "for t in done"
HandleDone(t) ==
    /\ pc = "loop"
    /\ t \in done
    /\ IF t \notin running
       THEN \* running.pop(t) raises KeyError: the except clause cancels
            \* every running task and gathers them
            /\ tasks' = Cancel(running)
            /\ pc' = "except_gather"
            /\ done' = {}
            /\ UNCHANGED <<results, idx, running, captcha_i>>
       ELSE LET i == t[1]
                res == tasks[t].res
                left == running \ {t}
            IN IF IsBlocked(res)
               THEN /\ tasks' = Cancel(left)
                    /\ running' = left
                    /\ captcha_i' = i
                    /\ pc' = "captcha_gather"
                    /\ done' = done \ {t}
                    /\ UNCHANGED <<results, idx>>
               ELSE LET to == FillTo(idx, Cardinality(left), Len(all_items_to_process))
                        fresh == StartedTasks(idx, to, restarts, context)
                    IN /\ results' = IF res.kind = "success"
                                     THEN Append(results, res.car) ELSE results
                       /\ idx' = to
                       /\ running' = left \cup DOMAIN fresh
                       /\ tasks' = fresh @@ tasks
                       /\ done' = done \ {t}
                       /\ pc' = AfterIteration(done \ {t}, left \cup DOMAIN fresh)
                       /\ UNCHANGED captcha_i
    /\ UNCHANGED <<concurrent_windows, disk, clock, runs, previous_results,
                   is_first_run, current_timestamp, all_items_to_process,
                   semaphore, context, restarts, run_blocked, run_errors,
                   all_blocked, all_errors, last_count,
                   removed_entry, other_vars>>

\* a cancelled task unwinds: CancelledError leaves "async with semaphore"
TaskCancelled(t) ==
    /\ pc \in {"captcha_gather", "except_gather"}
    /\ t \in DOMAIN tasks
    /\ tasks[t].st = "cancelling"
    /\ tasks' = [tasks EXCEPT ![t].st = "cancelled", ![t].slot = FALSE]
    /\ semaphore' = IF tasks[t].slot THEN semaphore + 1 ELSE semaphore
    /\ UNCHANGED <<concurrent_windows, disk, clock, runs, pc,
                   previous_results, is_first_run, current_timestamp,
                   all_items_to_process, results, idx, running, done,
                   context, restarts, captcha_i, run_blocked, run_errors,
                   all_blocked, all_errors, last_count,
                   removed_entry, other_vars>>

\* the CAPTCHA branch after "await asyncio.gather(...)" has returned:
\* running.clear(), browser.close(), launch_browser_and_context(), idx = i,
\* "Start fresh tasks up to concurrency", continue
Relaunch ==
    /\ pc = "captcha_gather"
    /\ Gathered(running)
    /\ LET to == FillTo(captcha_i, 0, Len(all_items_to_process))
           fresh == StartedTasks(captcha_i, to, restarts + 1,
                                 RestartContext(context))
       IN /\ idx' = to
          /\ running' = DOMAIN fresh
          /\ tasks' = fresh
          /\ pc' = AfterIteration(done, DOMAIN fresh)
    /\ results' = KeptResults(results)
    /\ context' = context + 1
    /\ restarts' = restarts + 1
    /\ UNCHANGED <<concurrent_windows, disk, clock, runs, previous_results,
                   is_first_run, current_timestamp, all_items_to_process,
                   done, semaphore, captcha_i, run_blocked,
                   run_errors, all_blocked, all_errors, last_count,
                   removed_entry, other_vars>>

\* the except clause after its gather has returned, and the no-op
\* "if running: await asyncio.gather(...)" that follows
ExceptGathered ==
    /\ pc = "except_gather"
    /\ Gathered(running)
    /\ pc' = "finalize"
    /\ UNCHANGED <<concurrent_windows, disk, clock, runs, previous_results,
                   is_first_run, current_timestamp, all_items_to_process,
                   results, idx, running, done, tasks, semaphore, context,
                   restarts, captcha_i, run_blocked, run_errors, all_blocked,
                   all_errors, last_count,
                   removed_entry, other_vars>>

\* "Handle removed items", "Save results" and the return of run_search_async
Finalize ==
    /\ pc = "finalize"
    /\ disk' = OutputData(results \o RemovedEntries(previous_results, results,
                                                    current_timestamp),
                          current_timestamp)
    /\ last_count' = CountsIn(disk', last_count)
    /\ removed_entry' = RemovedIn(disk', removed_entry)
    /\ runs' = runs + 1
    /\ clock' = clock + 1
    /\ pc' = "idle"
    /\ previous_results' = <<>>
    /\ is_first_run' = FALSE
    /\ current_timestamp' = NoneInt
    /\ all_items_to_process' = <<>>
    /\ results' = <<>>
    /\ idx' = 0
    /\ running' = {}
    /\ done' = {}
    /\ tasks' = <<>>
    /\ semaphore' = 0
    /\ context' = 0
    /\ restarts' = 0
    /\ captcha_i' = NoneInt
    /\ run_blocked' = 0
    /\ run_errors' = 0
    /\ UNCHANGED <<concurrent_windows, all_blocked, all_errors, other_vars>>

\* the process dies inside run_search_async. Nothing is written before
\* "Save results"; a death between open(output_file, 'w') and the end of
\* json.dump leaves a truncated file
Crash ==
    /\ pc # "idle"
    /\ disk' \in (IF pc = "finalize" THEN {disk, TruncatedFile} ELSE {disk})
    /\ runs' = runs + 1
    /\ clock' = clock + 1
    /\ pc' = "idle"
    /\ previous_results' = <<>>
    /\ is_first_run' = FALSE
    /\ current_timestamp' = NoneInt
    /\ all_items_to_process' = <<>>
    /\ results' = <<>>
    /\ idx' = 0
    /\ running' = {}
    /\ done' = {}
    /\ tasks' = <<>>
    /\ semaphore' = 0
    /\ context' = 0
    /\ restarts' = 0
    /\ captcha_i' = NoneInt
    /\ run_blocked' = 0
    /\ run_errors' = 0
    /\ UNCHANGED <<concurrent_windows, all_blocked, all_errors, last_count,
                   removed_entry, other_vars>>

Next ==
    \/ FeedFails
    \/ LoadFails
    \/ \E S \in SUBSET ItemIds : StartRun(S)
    \/ \E t \in DOMAIN tasks : TaskAcquire(t)
    \/ \E t \in DOMAIN tasks : \E res \in Outcomes(all_items_to_process[t[1] + 1]) :
          TaskComplete(t, res)
    \/ Wait
    \/ \E t \in done : HandleDone(t)
    \/ \E t \in DOMAIN tasks : TaskCancelled(t)
    \/ Relaunch
    \/ ExceptGathered
    \/ Finalize
    \/ Crash

Spec == Init /\ [][Next]_vars


(* ------------------------------------------------------------------ *)
(* Reconciliation of one run's outcomes in every completion order      *)
(* (process_item and the result handling of run_search_async)          *)
(* ------------------------------------------------------------------ *)
\* what a fetch that is not answered with a CAPTCHA gives: the page with the
\* price it shows, or an error
FetchOutcomes ==
    {[kind |-> "success", price |-> p] : p \in Prices \cup {NoneInt}}
       \cup {[kind |-> "error", price |-> NoneInt]}

\* a bug a claim must detect: only the first completed item of a first run
\* is treated as first-run
FirstRunFor_UntilFirstResult(first_run, res) == first_run /\ res = <<>>

\* the is_first_run every process_item call gets: computed once, before the
\* loop, whatever has been accumulated since
FirstRunFor(first_run, res) == first_run

\* the result list after "for t in done" has handled the task of one item
Handled(res, item, outcome, prev, now, first_run) ==
    IF outcome.kind = "success"
    THEN Append(res, process_item(item, outcome.price, prev, now,
                                  FirstRunFor(first_run, res)))
    ELSE res

RECURSIVE InInputOrder(_, _, _, _, _)
\* the result list when the tasks complete in the order of the feed
InInputOrder(items, outcomes, prev, now, first_run) ==
    IF items = <<>> THEN <<>>
    ELSE LET last == items[Len(items)]
         IN Handled(InInputOrder(SubSeq(items, 1, Len(items) - 1), outcomes,
                                 prev, now, first_run),
                    last, outcomes[last.item_id], prev, now, first_run)

\* a run whose pages are all being fetched, with the outcome of each fixed
InitOrder ==
    /\ NoFacebook
    /\ NoHistory
    /\ concurrent_windows = Max(Windows)
    /\ \/ disk \in {NoFile, LegacyFile({1})} /\ clock = 0
       \/ disk = EarlierFile /\ clock = 2
    /\ runs = 0
    /\ last_count = CountsIn(disk, [k \in ItemIds |-> NoneInt])
    /\ removed_entry = RemovedIn(disk, [k \in ItemIds |-> NoCar])
    /\ all_blocked = 0
    /\ all_errors = 0
    /\ pc = "reconcile"
    /\ previous_results = load_previous_results(disk)
    /\ is_first_run = (Len(load_previous_results(disk)) = 0)
    /\ current_timestamp = clock + 1
    /\ \E S \in SUBSET ItemIds : all_items_to_process = Items(S)
    /\ results = <<>>
    /\ idx = Len(all_items_to_process)
    /\ running = {}
    /\ done = {}
    /\ tasks = <<>>
    /\ semaphore = 0
    /\ context = 1
    /\ restarts = 0
    /\ captcha_i = NoneInt
    /\ run_blocked = 0
    /\ run_errors = 0
    /\ fetched \in [ItemIds -> FetchOutcomes]
    /\ delivered = {}

\* the task of item number n completes next and is handled
Deliver(n) ==
    /\ pc = "reconcile"
    /\ n \in DOMAIN all_items_to_process
    /\ all_items_to_process[n].item_id \notin delivered
    /\ results' = Handled(results, all_items_to_process[n],
                          fetched[all_items_to_process[n].item_id],
                          previous_results, current_timestamp, is_first_run)
    /\ delivered' = delivered \cup {all_items_to_process[n].item_id}
    /\ UNCHANGED <<concurrent_windows, disk, clock, runs, pc,
                   previous_results, is_first_run, current_timestamp,
                   all_items_to_process, idx, running, done, tasks,
                   semaphore, context, restarts, captcha_i, run_blocked,
                   run_errors, all_blocked, all_errors, last_count,
                   removed_entry, fetched, facebook_vars, history_vars>>

\* "Handle removed items" and "Save results" once every task was handled
SaveOrder ==
    /\ pc = "reconcile"
    /\ delivered = {all_items_to_process[n].item_id :
                      n \in DOMAIN all_items_to_process}
    /\ disk' = OutputData(results \o RemovedEntries(previous_results, results,
                                                    current_timestamp),
                          current_timestamp)
    /\ pc' = "saved"
    /\ UNCHANGED <<concurrent_windows, clock, runs, previous_results,
                   is_first_run, current_timestamp, all_items_to_process,
                   results, idx, running, done, tasks, semaphore, context,
                   restarts, captcha_i, run_blocked, run_errors, all_blocked,
                   all_errors, last_count, removed_entry, other_vars>>

NextOrder ==
    \/ \E n \in DOMAIN all_items_to_process : Deliver(n)
    \/ SaveOrder

SpecOrder == InitOrder /\ [][NextOrder]_vars

(* ------------------------------------------------------------------ *)
(* scrape_search (facebook_scraper.py)                                 *)
(* ------------------------------------------------------------------ *)
\* scraper.py is not running and has written nothing
Yad2Idle ==
    /\ concurrent_windows = Max(Windows)
    /\ disk = NoFile
    /\ clock = 0
    /\ runs = 0
    /\ last_count = [k \in ItemIds |-> NoneInt]
    /\ removed_entry = [k \in ItemIds |-> NoCar]
    /\ all_blocked = 0
    /\ all_errors = 0
    /\ Idle

\* calculate_car_hash of facebook_scraper.py: an injective encoding of the
\* five important fields in sorted key order
fb_calculate_car_hash(car) ==
    <<car.condition, car.description, car.location, car.price, car.title>>

\* the dict extract_car_details of facebook_scraper.py returns; the keys it
\* does not set (hash, first_seen, last_updated) hold None and an absent
\* change_history is the empty list
fb_extract_car_details(id, price, now) ==
    [item_id |-> id, title |-> 1, price |-> price, description |-> NoneInt,
     location |-> NoneInt, condition |-> NoneInt, scraped_at |-> now,
     hash |-> NoneHash, first_seen |-> NoneInt, last_updated |-> NoneInt,
     change_history |-> <<>>]

\* the change note of an updated listing: f"Price: {old} -> {new}"
ChangeNote(now, prev_car, car) ==
    [timestamp |-> now, before |-> prev_car.price, after |-> car.price]

\* all_cars after the body of "for i, listing in enumerate(listings, 1)"
\* for a listing whose page was extracted
fb_reconcile(cars, car, prev) ==
    LET car_hash == fb_calculate_car_hash(car)
    IN IF car.item_id \in Keys(prev)
       THEN LET prev_car == Lookup(prev, car.item_id)
            IN IF prev_car.hash = car_hash
               THEN Append(cars, prev_car)
               ELSE Append(cars,
                      [car EXCEPT
                         !.hash = car_hash,
                         !.first_seen = GetInt(prev_car.first_seen,
                                               car.scraped_at),
                         !.last_updated = car.scraped_at,
                         !.change_history =
                            Append(prev_car.change_history,
                                   ChangeNote(car.scraped_at, prev_car, car))])
       ELSE Append(cars, [car EXCEPT !.hash = car_hash,
                                     !.first_seen = car.scraped_at])

InitFacebook ==
    /\ Yad2Idle
    /\ NoOrder
    /\ NoHistory
    /\ NoFacebook

\* scrape_search from its first line to the list of listings
FbStart(S) ==
    /\ fb_pc = "idle"
    /\ fb_runs < MaxRuns
    /\ ~load_raises(fb_disk)
    /\ previous_cars' = load_previous_results(fb_disk)
    /\ listings' = SortedSeq(S)
    /\ all_cars' = <<>>
    /\ fb_i' = 1
    /\ fb_pc' = "listing"
    /\ UNCHANGED <<fb_disk, fb_runs, order_vars, history_vars,
                   concurrent_windows, disk, clock, runs, pc,
                   previous_results, is_first_run, current_timestamp,
                   all_items_to_process, results, idx, running, done, tasks,
                   semaphore, context, restarts, captcha_i, run_blocked,
                   run_errors, all_blocked, all_errors, last_count,
                   removed_entry>>

\* the search page cannot be loaded: page.goto raises, "finally" closes the
\* browser and scrape_search ends without writing
FbFails ==
    /\ fb_pc = "idle"
    /\ fb_runs < MaxRuns
    /\ fb_runs' = fb_runs + 1
    /\ UNCHANGED <<fb_disk, fb_pc, previous_cars, all_cars, listings, fb_i,
                   order_vars, history_vars,
                   concurrent_windows, disk, clock, runs, pc,
                   previous_results, is_first_run, current_timestamp,
                   all_items_to_process, results, idx, running, done, tasks,
                   semaphore, context, restarts, captcha_i, run_blocked,
                   run_errors, all_blocked, all_errors, last_count,
                   removed_entry>>

\* one iteration of the loop over the listings: the page is extracted and
\* reconciled, or an exception is caught and printed
FbProcess(outcome) ==
    /\ fb_pc = "listing"
    /\ fb_i <= Len(listings)
    /\ all_cars' =
          IF outcome.kind = "success"
          THEN fb_reconcile(all_cars,
                            fb_extract_car_details(listings[fb_i],
                                                   outcome.price,
                                                   fb_runs + 1),
                            previous_cars)
          ELSE all_cars
    /\ fb_i' = fb_i + 1
    /\ UNCHANGED <<fb_disk, fb_pc, fb_runs, previous_cars, listings,
                   order_vars, history_vars,
                   concurrent_windows, disk, clock, runs, pc,
                   previous_results, is_first_run, current_timestamp,
                   all_items_to_process, results, idx, running, done, tasks,
                   semaphore, context, restarts, captcha_i, run_blocked,
                   run_errors, all_blocked, all_errors, last_count,
                   removed_entry>>

\* "Save results" of scrape_search and its return
FbSave ==
    /\ fb_pc = "listing"
    /\ fb_i > Len(listings)
    /\ fb_disk' = [kind |-> "dict", last_scraped |-> fb_runs + 1,
                   total_cars_scraped |-> Len(all_cars), cars |-> all_cars]
    /\ fb_runs' = fb_runs + 1
    /\ fb_pc' = "idle"
    /\ previous_cars' = <<>>
    /\ all_cars' = <<>>
    /\ listings' = <<>>
    /\ fb_i' = 0
    /\ UNCHANGED <<order_vars, history_vars,
                   concurrent_windows, disk, clock, runs, pc,
                   previous_results, is_first_run, current_timestamp,
                   all_items_to_process, results, idx, running, done, tasks,
                   semaphore, context, restarts, captcha_i, run_blocked,
                   run_errors, all_blocked, all_errors, last_count,
                   removed_entry>>

NextFacebook ==
    \/ \E S \in SUBSET ItemIds : FbStart(S)
    \/ FbFails
    \/ \E outcome \in FetchOutcomes : FbProcess(outcome)
    \/ FbSave

SpecFacebook == InitFacebook /\ [][NextFacebook]_vars

(* ------------------------------------------------------------------ *)
(* save_search_to_history (scraper.py)                                 *)
(* ------------------------------------------------------------------ *)
\* search_metadata of a search: the four keys the search string is made of
SearchInfo(m) == [manufacturer |-> m, model |-> 1, year |-> 2020, km |-> 0]

\* f"{manufacturer} {model} {year} {km}": the four values in this order
search_str(search_info) ==
    <<search_info.manufacturer, search_info.model, search_info.year,
      search_info.km>>

\* a bug a claim must detect: an equal entry is left in the list
WithoutSearch_Kept(searches, str) == searches

\* [s for s in last_searches if s != search_str]
WithoutSearch(searches, str) ==
    LET differs(entry) == entry # str IN SelectSeq(searches, differs)

\* last_searches[:10]
Truncated(searches) ==
    IF Len(searches) > HistoryLimit THEN SubSeq(searches, 1, HistoryLimit)
    ELSE searches

\* the list save_search_to_history writes back to config.json
save_search_to_history(searches, search_info) ==
    Truncated(<<search_str(search_info)>>
                 \o WithoutSearch(searches, search_str(search_info)))

\* a history ten saves have filled: manufacturers 1 to 10, the first on top
FullHistory == [j \in 1..HistoryLimit |-> search_str(SearchInfo(j))]

InitHistory ==
    /\ Yad2Idle
    /\ NoOrder
    /\ NoFacebook
    /\ last_searches \in {<<>>, FullHistory}
    /\ saves = 0
    /\ last_saved = <<>>

\* main saves the search after run_search_async returned
SaveSearch(search_info) ==
    /\ saves < MaxSaves
    /\ last_searches' = save_search_to_history(last_searches, search_info)
    /\ last_saved' = search_str(search_info)
    /\ saves' = saves + 1
    /\ UNCHANGED <<order_vars, facebook_vars,
                   concurrent_windows, disk, clock, runs, pc,
                   previous_results, is_first_run, current_timestamp,
                   all_items_to_process, results, idx, running, done, tasks,
                   semaphore, context, restarts, captcha_i, run_blocked,
                   run_errors, all_blocked, all_errors, last_count,
                   removed_entry>>

\* load_config or the write of config.json raises, or search_info lacks a
\* key: the except clause prints a warning and the history stays as it is
SaveFails ==
    /\ saves < MaxSaves
    /\ saves' = saves + 1
    /\ UNCHANGED <<last_searches, last_saved, order_vars, facebook_vars,
                   concurrent_windows, disk, clock, runs, pc,
                   previous_results, is_first_run, current_timestamp,
                   all_items_to_process, results, idx, running, done, tasks,
                   semaphore, context, restarts, captcha_i, run_blocked,
                   run_errors, all_blocked, all_errors, last_count,
                   removed_entry>>

NextHistory ==
    \/ \E m \in Manufacturers : SaveSearch(SearchInfo(m))
    \/ SaveFails

SpecHistory == InitHistory /\ [][NextHistory]_vars

(* ------------------------------------------------------------------ *)
(* Properties                                                          *)
(* ------------------------------------------------------------------ *)
\* the fetch operations that hold a slot of the pool
InFlight == {t \in DOMAIN tasks : tasks[t].slot}
\* the entries of a list that carry item id k
Entries(cars, k) == {j \in DOMAIN cars : cars[j].item_id = k}
FoundIds == {results[j].item_id : j \in DOMAIN results}
ListedIds == {all_items_to_process[j].item_id : j \in DOMAIN all_items_to_process}
\* the step in which run_search_async marks the removed entries and saves:
\* the file it leaves carries this run's timestamp (a process that dies in
\* this step leaves the old file or a truncated one)
Finalizing ==
    pc = "finalize" /\ pc' = "idle" /\ disk'.last_scraped = current_timestamp
\* the important fields of an entry
ImportantFields(car) ==
    <<car.price, car.mileage, car.description, car.location>>

\* C1: in a run of scraper.py in which exactly one fetch reported CAPTCHA and
\* none reported another error, the result list accumulated when the
\* scheduler loop has run to its end (the running dict is empty) holds every
\* listed id exactly once.
C1_ResumeWithoutLossOrDuplicate ==
    (pc = "finalize" /\ running = {} /\ run_blocked = 1 /\ run_errors = 0)
        => \A k \in ListedIds : Cardinality(Entries(results, k)) = 1

\* C2: the number of fetch operations holding a slot never exceeds the
\* configured pool size, restarts included.
C2_PoolBounded == Cardinality(InFlight) <= concurrent_windows

C2_Witness ==
    /\ restarts > 0
    /\ concurrent_windows = 2
    /\ Cardinality(InFlight) = 2

\* a retry budget smaller than the number of CAPTCHA answers of the site
RetryBudget == MaxBlocked - 1

\* C3: a run restarts at most RetryBudget times.
C3_RestartsWithinBudget == restarts <= RetryBudget

\* C4: the step that saves the run writes every prior entry that was neither
\* removed nor fetched in this run exactly once, with status removed and this
\* run's timestamp as removal date, and writes no fetched id as removed.
C4_UnseenMarkedRemoved ==
    [][Finalizing =>
        /\ \A k \in Keys(previous_results) :
             (Lookup(previous_results, k).status # "removed" /\ k \notin FoundIds)
                => /\ Cardinality(Entries(disk'.cars, k)) = 1
                   /\ \A j \in Entries(disk'.cars, k) :
                        /\ disk'.cars[j].status = "removed"
                        /\ disk'.cars[j].removed_date = current_timestamp
        /\ \A k \in FoundIds : \A j \in Entries(disk'.cars, k) :
             disk'.cars[j].status # "removed"]_vars

C4_Witness ==
    /\ runs > 0
    /\ disk.kind = "dict"
    /\ disk.last_scraped = clock
    /\ \E j \in DOMAIN disk.cars :
         /\ disk.cars[j].status = "removed"
         /\ disk.cars[j].removed_date = disk.last_scraped
    /\ \E j \in DOMAIN disk.cars : disk.cars[j].status \in {"active", "updated"}

\* C5: an id held by the snapshot file is held by the file after every step.
C5_NeverDeleted ==
    [][Keys(load_previous_results(disk))
          \subseteq Keys(load_previous_results(disk'))]_vars

\* C6: a prior entry that is already removed and is not fetched in this run
\* is written again, as removed and with its removal date unchanged.
C6_RemovedKept ==
    [][Finalizing =>
        \A k \in Keys(previous_results) :
           (Lookup(previous_results, k).status = "removed" /\ k \notin FoundIds)
              => /\ k \in Keys(load_previous_results(disk'))
                 /\ Lookup(load_previous_results(disk'), k).status = "removed"
                 /\ Lookup(load_previous_results(disk'), k).removed_date
                      = Lookup(previous_results, k).removed_date]_vars

\* C7: the update_count written for an id is never below the update_count
\* last written for that id.
C7_UpdateCountNeverDecreases ==
    [][\A k \in Keys(load_previous_results(disk')) :
          LET count == Lookup(load_previous_results(disk'), k).update_count
          IN count # NoneInt => count >= last_count[k]]_vars

\* C8: a fetched entry whose id is in the prior snapshot and whose fingerprint
\* differs from the stored one (a prior entry without a fingerprint differs
\* from any) is updated, counts one update more than the prior entry (which
\* counts 0 when it has no counter), is stamped with this run's timestamp and
\* keeps the first_seen of the prior entry when that has one.
C8_ChangedIsUpdated ==
    \A j \in DOMAIN results :
       LET car == results[j] IN
       (car.item_id \in Keys(previous_results)
        /\ car.content_hash # Lookup(previous_results, car.item_id).content_hash)
          => LET old == Lookup(previous_results, car.item_id)
             IN /\ car.status = "updated"
                /\ car.update_count
                     = (IF old.update_count = NoneInt THEN 0 ELSE old.update_count) + 1
                /\ car.last_update = current_timestamp
                /\ old.first_seen # NoneInt => car.first_seen = old.first_seen

C8_Witness ==
    \E j \in DOMAIN results :
       /\ results[j].item_id \in Keys(previous_results)
       /\ LET old == Lookup(previous_results, results[j].item_id)
          IN /\ old.content_hash # NoneHash
             /\ old.content_hash # results[j].content_hash
             /\ old.first_seen # NoneInt
             /\ old.first_seen < current_timestamp
             /\ results[j].update_count = 1

\* C9: a fetched entry whose important fields equal those of the entry the
\* prior run wrote for its id is active and keeps the stored update_count,
\* first_seen and last_update.
C9_SameFieldsStayActive ==
    disk.kind = "dict" =>
       \A j \in DOMAIN results :
          LET car == results[j] IN
          (car.item_id \in Keys(previous_results)
           /\ ImportantFields(car)
                = ImportantFields(Lookup(previous_results, car.item_id)))
             => LET old == Lookup(previous_results, car.item_id)
                IN /\ car.status = "active"
                   /\ car.update_count = old.update_count
                   /\ car.first_seen = old.first_seen
                   /\ car.last_update = old.last_update

\* C10: while no snapshot file exists, every entry of the result list is
\* active, first seen at this run's timestamp, with update_count 0.
C10_FirstRunAllActive ==
    disk.kind = "nofile" =>
       \A j \in DOMAIN results :
          /\ results[j].status = "active"
          /\ results[j].first_seen = current_timestamp
          /\ results[j].update_count = 0

C10_Witness ==
    /\ disk.kind = "nofile"
    /\ pc = "finalize"
    /\ Cardinality(FoundIds) = 2

\* the listing pages are being fetched: the scheduler loop or one of its
\* gathers is running
Fetching == pc \in {"wait", "loop", "captcha_gather", "except_gather"}
\* the process dies while the listing pages are being fetched
CrashWhileFetching == Fetching /\ pc' = "idle"
\* the snapshot the run is about to save
NewSnapshot ==
    OutputData(results \o RemovedEntries(previous_results, results,
                                         current_timestamp),
               current_timestamp)
IsPrefix(s, t) == Len(s) <= Len(t) /\ SubSeq(t, 1, Len(s)) = s

\* C11: when a snapshot file existed at the start of the run, even one that
\* holds no entry, every fetched entry whose id is not in the prior snapshot
\* is new, first seen at this run's timestamp, with update_count 0.
C11_UnseenIsNewWhenFileExisted ==
    disk.kind # "nofile" =>
       \A j \in DOMAIN results :
          results[j].item_id \notin Keys(previous_results)
             => /\ results[j].status = "new"
                /\ results[j].first_seen = current_timestamp
                /\ results[j].update_count = 0

\* C12: a fetched entry whose id was last written as removed, in the previous
\* run or in an earlier one, is active or updated, keeps the first_seen
\* recorded with the removed entry (when that has one) and its update_count
\* (0 when that has none), raised by one exactly when the entry is updated.
C12_RemovedComesBackWithHistory ==
    \A j \in DOMAIN results :
       LET car == results[j]
           old == removed_entry[car.item_id]
       IN old # NoCar =>
            /\ car.status \in {"active", "updated"}
            /\ old.first_seen # NoneInt => car.first_seen = old.first_seen
            /\ car.update_count
                 = GetInt(old.update_count, 0)
                     + (IF car.status = "updated" THEN 1 ELSE 0)

\* C13: a legacy flat-list file loads as a mapping keyed by the item ids of
\* its records, and every fetched entry whose id is in it is active.
C13_LegacyRefetchedIsActive ==
    disk.kind = "list" =>
       /\ Keys(load_previous_results(disk))
            = {disk.cars[j].item_id : j \in DOMAIN disk.cars}
       /\ \A j \in DOMAIN results :
             results[j].item_id \in Keys(previous_results)
                => results[j].status = "active"

\* C14: for a file that does not exist, cannot be read, is not valid JSON or
\* holds entries that are not records, load_previous_results does not raise
\* and returns the empty mapping.
C14_LoadNeverRaises ==
    disk.kind \in {"nofile", "unreadable", "invalid_json", "not_records"}
       => /\ ~load_raises(disk)
          /\ load_previous_results(disk) = <<>>

\* C15: when the process dies while the listing pages are being fetched, the
\* snapshot file holds every entry of the result list accumulated so far.
C15_CrashKeepsCompletedResults ==
    [][CrashWhileFetching =>
         \A j \in DOMAIN results :
            \E n \in DOMAIN disk'.cars : disk'.cars[n] = results[j]]_vars

\* C16: whatever happens in the save step, a crash included, the file it
\* leaves loads without raising, as the previous snapshot, as the new
\* snapshot or as the empty mapping.
C16_SaveLeavesLoadableFile ==
    [][(pc = "finalize" /\ pc' = "idle") =>
         /\ ~load_raises(disk')
         /\ load_previous_results(disk')
              \in {load_previous_results(disk),
                   load_previous_results(NewSnapshot), <<>>}]_vars

\* C17: a run over an existing snapshot that could enumerate no listing (the
\* feed page failed, or no listing link was found on the first page) leaves
\* the snapshot file as it was.
C17_NoTargetsWritesNothing ==
    [][((pc = "idle" \/ all_items_to_process = <<>>) /\ runs' = runs + 1
          /\ disk.kind \in {"dict", "list"})
         => disk' = disk]_vars

\* C18: when the removed entries are marked and the file is saved, no fetch
\* task is pending, running or still unwinding from a cancellation.
C18_FinalizeAfterAllTasks ==
    pc = "finalize" =>
       \A t \in DOMAIN tasks : tasks[t].st \in {"finished", "cancelled"}

C18_Witness ==
    /\ pc = "finalize"
    /\ restarts > 0
    /\ \E t \in running : tasks[t].st = "cancelled"

\* C19: across the handling of a CAPTCHA result (cancel, gather, relaunch,
\* restart of the tasks) the result list only grows at its end: the list
\* before a step is a prefix of the list after it.
C19_RestartKeepsResults ==
    [][(pc \in {"loop", "captcha_gather"} /\ pc' # "idle")
         => IsPrefix(results, results')]_vars

C19_Witness ==
    /\ restarts > 0
    /\ Len(results) > 0
    /\ running # {}
    /\ \A t \in DOMAIN tasks : tasks[t].st = "created"

\* C20: the step that restarts the tasks after a CAPTCHA leaves the result
\* list as it is, and every reference whose task was cancelled is either
\* started again in that step or still ahead of the next index to dispatch.
C20_CancelledAreResubmitted ==
    [][(pc = "captcha_gather" /\ pc' \notin {"captcha_gather", "idle"}) =>
         /\ results' = results
         /\ \A t \in DOMAIN tasks :
              tasks[t].st = "cancelled"
                 => \/ \E u \in running' : u[1] = t[1]
                    \/ t[1] >= idx']_vars

\* a fetch task that has not finished or finished unwinding
Live(task) == task.st \in {"created", "fetching", "cancelling"}
\* the step that ends the CAPTCHA branch: the browser is relaunched and the
\* tasks are started again
Restarting == pc = "captcha_gather" /\ pc' \notin {"captcha_gather", "idle"}
\* the first index, in input order, whose id is not in the result list
FirstMissing ==
    LET missing == {i \in 0..(Len(all_items_to_process) - 1) :
                      all_items_to_process[i + 1].item_id \notin FoundIds}
    IN IF missing = {} THEN Len(all_items_to_process)
       ELSE CHOOSE i \in missing : \A m \in missing : i <= m

\* C21: the step that handles a task whose result is a non-CAPTCHA error adds
\* nothing to the result list, cancels no task, keeps every other running
\* task, does not relaunch the browser, and goes on dispatching: after it the
\* pool is full or every reference has been dispatched.
C21_ItemErrorIsLocal ==
    [][\A t \in done :
         (pc = "loop" /\ t \in running /\ tasks[t].res.kind = "error"
            /\ done' = done \ {t} /\ pc' # "idle")
         => /\ results' = results
            /\ context' = context
            /\ restarts' = restarts
            /\ pc' # "captcha_gather"
            /\ \A u \in DOMAIN tasks : tasks'[u] = tasks[u]
            /\ running \ {t} \subseteq running'
            /\ \/ idx' = Len(all_items_to_process)
               \/ Cardinality(running') = concurrent_windows]_vars

C21_Witness ==
    /\ pc = "wait"
    /\ restarts = 0
    /\ idx = 2
    /\ results = <<>>
    /\ \E t \in DOMAIN tasks \ running : tasks[t].res.kind = "error"
    /\ \E u \in running : tasks[u].st = "fetching"

\* C22: the save step writes every entry that has a fingerprint with the
\* fingerprint of its own important fields, and writes every prior entry
\* that was not fetched in this run with its fingerprint and important
\* fields unchanged.
C22_FingerprintMatchesFields ==
    [][Finalizing =>
         /\ \A j \in DOMAIN disk'.cars :
               disk'.cars[j].content_hash # NoneHash
                  => disk'.cars[j].content_hash
                       = calculate_car_hash(disk'.cars[j])
         /\ \A k \in Keys(previous_results) \ FoundIds :
               /\ k \in Keys(load_previous_results(disk'))
               /\ Lookup(load_previous_results(disk'), k).content_hash
                    = Lookup(previous_results, k).content_hash
               /\ ImportantFields(Lookup(load_previous_results(disk'), k))
                    = ImportantFields(Lookup(previous_results, k))]_vars

\* C24: every entry process_item classifies updated carries a change history
\* with at least one note.
C24_UpdatedHasChangeNote ==
    \A j \in DOMAIN results :
       results[j].status = "updated"
          => /\ "change_history" \in DOMAIN results[j]
             /\ Len(results[j].change_history) > 0

\* C26: the restart after a CAPTCHA resubmits from the first reference, in
\* input order, whose id is not in the result list.
C26_ResumeAtFirstMissing ==
    [][Restarting =>
         /\ \A u \in running' : u[1] >= FirstMissing
         /\ FirstMissing < Len(all_items_to_process)
               => \E u \in running' : u[1] = FirstMissing]_vars

\* C27: when the browser context is replaced no task of the old context is
\* pending, running or still unwinding, and in every state every such task
\* uses the current context.
C27_ContextRebuiltInOrder ==
    [][/\ context' > context /\ context # 0
            => \A t \in DOMAIN tasks : ~Live(tasks[t])
       /\ \A t \in DOMAIN tasks' :
            Live(tasks'[t]) => tasks'[t].ctx = context']_vars

C27_Witness ==
    /\ context = 2
    /\ restarts = 1
    /\ \E t \in running : tasks[t].st = "fetching" /\ tasks[t].ctx = 2

C29_BatchTasksStillRegistered ==
    pc = "loop" => done \subseteq running

\* the entries of a list, whatever their order
EntrySet(cars) == {cars[j] : j \in DOMAIN cars}
\* the snapshot the run saves when its tasks complete in the order of the feed
InOrderSnapshot ==
    LET res == InInputOrder(all_items_to_process, fetched, previous_results,
                            current_timestamp, is_first_run)
    IN OutputData(res \o RemovedEntries(previous_results, res,
                                        current_timestamp),
                  current_timestamp)

\* C23: whatever the order in which the tasks of a run complete, the saved
\* snapshot holds the same entries, one per id, as when they complete in the
\* order of the feed.
C23_OrderIndependent ==
    pc = "saved" =>
       /\ EntrySet(disk.cars) = EntrySet(InOrderSnapshot.cars)
       /\ Len(disk.cars) = Len(InOrderSnapshot.cars)
       /\ \A k \in Keys(disk.cars) : Cardinality(Entries(disk.cars, k)) = 1

C23_Witness ==
    /\ pc = "saved"
    /\ Len(results) = 2
    /\ results[1].item_id = all_items_to_process[2].item_id
    /\ results[2].item_id = all_items_to_process[1].item_id
    /\ results[1].status # results[2].status

\* the ids scrape_search has put into all_cars
FbObserved == {all_cars[j].item_id : j \in DOMAIN all_cars}

\* C25: the save of scrape_search keeps every prior entry in the file, and
\* writes a prior entry whose listing was not observed, or whose fetch
\* raised, with status removed.
C25_FacebookKeepsUnobserved ==
    [][(fb_pc = "listing" /\ fb_pc' = "idle") =>
         \A k \in Keys(previous_cars) :
            /\ k \in Keys(load_previous_results(fb_disk'))
            /\ k \notin FbObserved =>
                 LET kept == Lookup(load_previous_results(fb_disk'), k)
                 IN /\ "status" \in DOMAIN kept
                    /\ kept.status = "removed"]_vars

\* a list holds no entry twice
NoDuplicates(searches) ==
    \A a, b \in DOMAIN searches : searches[a] = searches[b] => a = b
\* position of an entry in a list that holds it
PositionIn(searches, str) == CHOOSE j \in DOMAIN searches : searches[j] = str

\* C30: after every call of save_search_to_history the list holds at most
\* 10 entries and none twice; the entries behind the first are entries of
\* the previous list, in their previous relative order; and once a call has
\* saved, the search saved last is first and saving it once more leaves the
\* list as it is.
C30_HistoryBoundedUniqueRecentFirst ==
    [][saves' = saves + 1 =>
         /\ Len(last_searches') <= HistoryLimit
         /\ NoDuplicates(last_searches')
         /\ \A a \in 2..Len(last_searches') :
               \E j \in DOMAIN last_searches :
                  last_searches[j] = last_searches'[a]
         /\ \A a, b \in 2..Len(last_searches') :
               a < b => PositionIn(last_searches, last_searches'[a])
                          < PositionIn(last_searches, last_searches'[b])
         /\ last_saved' # <<>> =>
               /\ last_searches'[1] = last_saved'
               /\ \A m \in Manufacturers :
                     search_str(SearchInfo(m)) = last_saved'
                        => save_search_to_history(last_searches',
                                                  SearchInfo(m))
                             = last_searches']_vars

C30_Witness ==
    /\ saves = MaxSaves
    /\ Len(last_searches) = HistoryLimit
    /\ last_searches[1] = search_str(SearchInfo(11))
    /\ last_searches[2] = search_str(SearchInfo(5))
    /\ last_searches[3] = search_str(SearchInfo(12))

====
